---- MODULE Spec2Model ----
(***************************************************************************)
(* A model of src/app.py, the Streamlit "Data Explorer" dashboard.         *)
(*                                                                         *)
(* The script is re-executed top to bottom on every user interaction. One  *)
(* execution (a "pass") is modelled by RunScript: the composition, in      *)
(* source order, of the script's sections. Each section appends to a log   *)
(* what it puts on the page (tables, selectors, charts, downloads), may    *)
(* change the table, and registers the figures it creates with pyplot.     *)
(*                                                                         *)
(* Numbers are exact rationals <<num, den>> in lowest terms (den = 0 is    *)
(* inf / NaN, as float division yields); float rounding is not modelled.   *)
(* Each bundled table is represented by its columns (Titanic by seven of   *)
(* its fifteen, in their order) and by three of its rows.                  *)
(***************************************************************************)
EXTENDS Integers, Sequences, FiniteSets, TLC

VARIABLES
    sel,    \* widget state of the session: the current selections
    data,   \* the table `data` as the last pass (or unit call) left it
    out,    \* what the last pass (or unit call) put on the page, in order
    figs,   \* number of figures held by pyplot's global registry
    call,   \* unit harness only: the section invoked last and its argument
    ref     \* history variable: one remembered (selections, output) pair

vars == <<sel, data, out, figs, call, ref>>

(***************************************************************************)
(* Bounds of the model.                                                    *)
(***************************************************************************)
MaxFigs == 20
MaxRows == 2
MaxBill == 2
MaxSize == 4

(***************************************************************************)
(* Python values.                                                          *)
(***************************************************************************)
PyNone == "<None>"
NA == "<NA>"

Abs(n) == IF n < 0 THEN -n ELSE n

Sign(n) == IF n < 0 THEN -1 ELSE IF n > 0 THEN 1 ELSE 0

RECURSIVE GCD(_, _)
GCD(a, b) == IF b = 0 THEN a ELSE GCD(b, a % b)

\* The rational n/d in lowest terms with a positive denominator; x/0 is
\* +-inf (<<+-1, 0>>) and 0/0 is NaN (<<0, 0>>), as in float arithmetic.
Rat(n, d) ==
    IF d = 0 THEN <<Sign(n), 0>>
    ELSE LET g == GCD(Abs(n), Abs(d))
         IN  <<(Sign(d) * n) \div g, Abs(d) \div g>>

Num(n) == Rat(n, 1)

\* Python 3 true division of two numbers.
TrueDivFloor(a, b) ==
    IF a[2] = 0 \/ b[2] = 0 \/ b[1] = 0 THEN Rat(a[1] * b[2], a[2] * b[1])
    ELSE Num((a[1] * b[2]) \div (a[2] * b[1]))

TrueDiv(a, b) == Rat(a[1] * b[2], a[2] * b[1])

IsNaN(v) == v[2] = 0 /\ v[1] = 0

(***************************************************************************)
(* Tables (pandas DataFrames): an ordered column list, a dtype per column  *)
(* ("num", "cat", "bool") and rows, each a function from column to value.  *)
(***************************************************************************)
ColSet(t) == {t.cols[i] : i \in DOMAIN t.cols}

HasCol(t, c) == c \in ColSet(t)

IsNumeric(t, c) == t.dtype[c] = "num"

\* data.select_dtypes(include=np.number): bool and categorical columns are not numbers.
SelectNumeric(t) ==
    LET keep == SelectSeq(t.cols, LAMBDA c : IsNumeric(t, c))
        ks   == {keep[i] : i \in DOMAIN keep}
    IN  [name  |-> t.name,
         cols  |-> keep,
         dtype |-> [c \in ks |-> t.dtype[c]],
         rows  |-> [i \in DOMAIN t.rows |-> [c \in ks |-> t.rows[i][c]]]]

\* DataFrame.empty: some axis has length 0.
Empty(t) == Len(t.cols) = 0 \/ Len(t.rows) = 0

\* data[c] = vals: replaces the column in place when it exists, appends it otherwise.
SetColumn(t, c, dt, vals) ==
    [name  |-> t.name,
     cols  |-> IF HasCol(t, c) THEN t.cols ELSE Append(t.cols, c),
     dtype |-> (c :> dt) @@ t.dtype,
     rows  |-> [i \in DOMAIN t.rows |-> (c :> vals[i]) @@ t.rows[i]]]

IsMissing(t, c, v) ==
    IF t.dtype[c] = "num" THEN IsNaN(v)
    ELSE IF t.dtype[c] = "cat" THEN v = NA
    ELSE FALSE

\* The hue levels seaborn derives from a column: its distinct values in
\* order of appearance, missing values dropped.
RECURSIVE Levels(_, _, _, _)
Levels(t, c, i, acc) ==
    IF i > Len(t.rows) THEN acc
    ELSE LET v == t.rows[i][c]
         IN  IF IsMissing(t, c, v) \/ v \in {acc[k] : k \in DOMAIN acc}
             THEN Levels(t, c, i + 1, acc)
             ELSE Levels(t, c, i + 1, Append(acc, v))

(***************************************************************************)
(* The bundled datasets (seaborn's iris, titanic, tips).                   *)
(***************************************************************************)
Identifiers == {"Iris", "Titanic", "Tips"}

IrisTable ==
    [name  |-> "iris",
     cols  |-> <<"sepal_length", "sepal_width", "petal_length", "petal_width", "species">>,
     dtype |-> [sepal_length |-> "num", sepal_width |-> "num", petal_length |-> "num",
                petal_width |-> "num", species |-> "cat"],
     rows  |-> << [sepal_length |-> Rat(51, 10), sepal_width |-> Rat(35, 10),
                   petal_length |-> Rat(14, 10), petal_width |-> Rat(2, 10),
                   species |-> "setosa"],
                  [sepal_length |-> Rat(70, 10), sepal_width |-> Rat(32, 10),
                   petal_length |-> Rat(47, 10), petal_width |-> Rat(14, 10),
                   species |-> "versicolor"],
                  [sepal_length |-> Rat(63, 10), sepal_width |-> Rat(33, 10),
                   petal_length |-> Rat(60, 10), petal_width |-> Rat(25, 10),
                   species |-> "virginica"] >>]

\* A projection of the fifteen-column table on seven of its columns.
TitanicTable ==
    [name  |-> "titanic",
     cols  |-> <<"survived", "pclass", "sex", "age", "class", "deck", "alone">>,
     dtype |-> [survived |-> "num", pclass |-> "num", sex |-> "cat", age |-> "num",
                class |-> "cat", deck |-> "cat", alone |-> "bool"],
     rows  |-> << [survived |-> Num(0), pclass |-> Num(3), sex |-> "male", age |-> Num(22),
                   class |-> "Third", deck |-> NA, alone |-> FALSE],
                  [survived |-> Num(1), pclass |-> Num(1), sex |-> "female", age |-> Num(38),
                   class |-> "First", deck |-> "C", alone |-> FALSE],
                  [survived |-> Num(0), pclass |-> Num(3), sex |-> "male", age |-> Rat(0, 0),
                   class |-> "Third", deck |-> NA, alone |-> TRUE] >>]

TipsTable ==
    [name  |-> "tips",
     cols  |-> <<"total_bill", "tip", "sex", "smoker", "day", "time", "size">>,
     dtype |-> [total_bill |-> "num", tip |-> "num", sex |-> "cat", smoker |-> "cat",
                day |-> "cat", time |-> "cat", size |-> "num"],
     rows  |-> << [total_bill |-> Rat(1699, 100), tip |-> Rat(101, 100), sex |-> "Female",
                   smoker |-> "No", day |-> "Sun", time |-> "Dinner", size |-> Num(2)],
                  [total_bill |-> Rat(1034, 100), tip |-> Rat(166, 100), sex |-> "Male",
                   smoker |-> "No", day |-> "Sun", time |-> "Dinner", size |-> Num(3)],
                  [total_bill |-> Rat(2059, 100), tip |-> Rat(371, 100), sex |-> "Male",
                   smoker |-> "Yes", day |-> "Sat", time |-> "Dinner", size |-> Num(4)] >>]

NoTable == [name |-> PyNone, cols |-> <<>>, dtype |-> << >>, rows |-> <<>>]

(***************************************************************************)
(* Sidebar controls (lines 82-97) and the session's widget state.          *)
(***************************************************************************)
Themes == {"Default", "Dark", "Pastel", "Bright"}

PlotWidthMin == 400
PlotWidthMax == 1000
PlotWidthDefault == 600
PlotHeightMin == 300
PlotHeightMax == 800
PlotHeightDefault == 400

\* The slider positions explored: both ends of each range and its default.
WidthValues == {PlotWidthMin, PlotWidthDefault, PlotWidthMax}
HeightValues == {PlotHeightMin, PlotHeightDefault, PlotHeightMax}

\* A selectbox whose options changed is a new widget: it holds no choice
\* yet (PyNone) and the next pass gives it the option at its default index.
DefaultSel(d, th, w, h, an) ==
    [dataset |-> d, theme |-> th, width |-> w, height |-> h, animate |-> an,
     dist |-> PyNone, x |-> PyNone, y |-> PyNone, hue |-> PyNone]

InitSel == DefaultSel("Iris", "Default", PlotWidthDefault, PlotHeightDefault, TRUE)

SeqSet(q) == {q[i] : i \in DOMAIN q}

\* st.selectbox(label, options, index): the session's choice when it is one
\* of the options, otherwise the option at `index`; None without options.
Selectbox(options, chosen, index) ==
    IF Len(options) = 0 THEN PyNone
    ELSE IF chosen \in SeqSet(options) THEN chosen
    ELSE options[index + 1]

Truthy(v) == v # PyNone /\ v # ""

(***************************************************************************)
(* The state of one pass and what its sections append to the page.         *)
(***************************************************************************)
StartPass(s, live) ==
    [data |-> NoTable, log |-> <<>>, figs |-> live, err |-> PyNone,
     w |-> [dist |-> s.dist, x |-> s.x, y |-> s.y, hue |-> s.hue]]

Emit(r, e) == [r EXCEPT !.log = Append(@, e)]

\* An uncaught exception: the pass stops here and the page shows the error.
Raise(r, type) == [r EXCEPT !.err = type, !.log = Append(@, [kind |-> "error", type |-> type])]

\* plt.subplots / sns.pairplot register a figure with pyplot; nothing in the
\* script closes one (st.pyplot(fig) leaves an explicitly passed figure open).
NewFigure(r) == [r EXCEPT !.figs = @ + 1]

\* figsize=(plot_width/100, plot_height/100)
FigSize(s) == <<Rat(s.width, 100), Rat(s.height, 100)>>

Chart(tab, id, figsize, x, y, hue, size, palette, levels, cols, file) ==
    [kind |-> "chart", tab |-> tab, id |-> id, figsize |-> figsize, x |-> x, y |-> y,
     hue |-> hue, s |-> size, palette |-> palette, levels |-> levels,
     nseries |-> IF hue = PyNone THEN 1 ELSE Len(levels),
     cols |-> cols, file |-> file]

\* st.pyplot(fig) followed by st.download_button(data=fig_to_bytes(fig), file_name=...)
Show(r, chart) == Emit(NewFigure(r), chart)

\* sns.scatterplot(x=, y=, hue=, data=, ax=, s=, alpha=0.7) on a new figure.
ScatterPlot(r, s, tab, id, x, y, hue, size, file) ==
    IF ~HasCol(r.data, x) \/ ~HasCol(r.data, y) \/ (hue # PyNone /\ ~HasCol(r.data, hue))
    THEN Raise(NewFigure(r), "ValueError")
    ELSE Show(r, Chart(tab, id, FigSize(s), x, y, hue, size, PyNone,
                       IF hue = PyNone THEN <<>> ELSE Levels(r.data, hue, 1, <<>>),
                       <<>>, file))

(***************************************************************************)
(* load_data (lines 100-109).                                              *)
(***************************************************************************)
FreshTable(dataset) ==
    IF dataset = "Iris" THEN IrisTable
    ELSE IF dataset = "Titanic" THEN TitanicTable
    ELSE TipsTable

\* Mutants of load_data: a memoised loader handing back the table object an
\* earlier pass changed; a loader that derives the Tips column itself.
LoadDataMemo(dataset) ==
    IF dataset \in Identifiers
    THEN [ok |-> TRUE,
          table |-> IF data.name = FreshTable(dataset).name THEN data ELSE FreshTable(dataset)]
    ELSE [ok |-> FALSE, error |-> "UnboundLocalError"]

LoadDataDerived(dataset) ==
    IF dataset \in Identifiers
    THEN [ok |-> TRUE,
          table |-> IF dataset = "Tips"
                    THEN SetColumn(TipsTable, "bill_per_person", "num",
                                   [i \in DOMAIN TipsTable.rows |->
                                      TrueDiv(TipsTable.rows[i]["total_bill"],
                                              TipsTable.rows[i]["size"])])
                    ELSE FreshTable(dataset)]
    ELSE [ok |-> FALSE, error |-> "UnboundLocalError"]

\* Each branch reads the dataset anew; with no branch taken `return data`
\* reads an unbound local.
LoadData(dataset) ==
    IF dataset = "Iris" THEN [ok |-> TRUE, table |-> IrisTable]
    ELSE IF dataset = "Titanic" THEN [ok |-> TRUE, table |-> TitanicTable]
    ELSE IF dataset = "Tips" THEN [ok |-> TRUE, table |-> TipsTable]
    ELSE [ok |-> FALSE, error |-> "UnboundLocalError"]

\* data = load_data(dataset_name)
Load(r, dataset) ==
    LET res == LoadData(dataset)
    IN  IF res.ok
        THEN Emit([r EXCEPT !.data = res.table],
                  [kind |-> "load", dataset |-> dataset, cols |-> res.table.cols])
        ELSE Raise(r, res.error)

(***************************************************************************)
(* Dataset Overview and Summary Statistics (lines 116-122).                *)
(***************************************************************************)
\* data.describe(): the numeric columns when there are any, else all columns.
DescribeCols(t) == IF Len(SelectNumeric(t).cols) > 0 THEN SelectNumeric(t).cols ELSE t.cols

Overview(r) ==
    IF r.err # PyNone THEN r
    ELSE Emit(Emit(r, [kind |-> "dataframe", cols |-> r.data.cols]),
              [kind |-> "describe", cols |-> DescribeCols(r.data)])

(***************************************************************************)
(* Tab 1, Basic Visualizations (lines 129-203).                            *)
(***************************************************************************)
\* sns.countplot(x=, hue=, data=, ax=, palette=) on a new figure.
CountPlot(r, s, tab, id, x, hue, palette, file) ==
    IF ~HasCol(r.data, x) \/ ~HasCol(r.data, hue)
    THEN Raise(NewFigure(r), "ValueError")
    ELSE Show(r, Chart(tab, id, FigSize(s), x, PyNone, hue, PyNone, palette,
                       Levels(r.data, hue, 1, <<>>), <<>>, file))

BasicVisualizations(r, s) ==
    IF r.err # PyNone THEN r
    ELSE IF s.dataset = "Iris"
    THEN ScatterPlot(r, s, 1, "iris_scatter", "sepal_length", "sepal_width", "species",
                     IF s.animate THEN 100 ELSE 50, "iris_scatter.png")
    ELSE IF s.dataset = "Titanic"
    THEN CountPlot(r, s, 1, "titanic_survival", "survived", "class",
                   IF s.theme = "Default" THEN "viridis" ELSE PyNone,
                   "titanic_survival.png")
    ELSE IF s.dataset = "Tips"
    THEN ScatterPlot(r, s, 1, "tips_scatter", "total_bill", "tip", "sex",
                     IF s.animate THEN 80 ELSE 40, "tips_scatter.png")
    ELSE r

(***************************************************************************)
(* Tab 2, Advanced Analysis (lines 205-297).                               *)
(***************************************************************************)
NoNumericNotice == "No numeric features to compute correlation for this dataset."

\* Mutant: the emptiness test dropped, the heatmap drawn whatever the table holds.
CorrelationHeatmapUnguarded(r, s) ==
    IF r.err # PyNone THEN r
    ELSE Show(r, Chart(2, "correlation_heatmap", FigSize(s), PyNone, PyNone, PyNone,
                       PyNone, "coolwarm", <<>>, SelectNumeric(r.data).cols,
                       "correlation_heatmap.png"))

CorrelationHeatmap(r, s) ==
    IF r.err # PyNone THEN r
    ELSE IF s.dataset \in {"Iris", "Titanic", "Tips"}
    THEN LET numeric_data == SelectNumeric(r.data)
         IN  IF ~Empty(numeric_data)
             THEN Show(r, Chart(2, "correlation_heatmap", FigSize(s), PyNone, PyNone,
                                PyNone, PyNone, "coolwarm", <<>>, numeric_data.cols,
                                "correlation_heatmap.png"))
             ELSE Emit(r, [kind |-> "write", tab |-> 2, text |-> NoNumericNotice])
    ELSE r

\* sns.pairplot(data, hue="species", height=2): a grid of one facet per pair
\* of numeric columns, each `height` inches high with aspect 1.
PairHeight == 2

PairPlots(r, s) ==
    IF r.err # PyNone THEN r
    ELSE IF s.dataset = "Iris"
    THEN IF ~HasCol(r.data, "species") THEN Raise(r, "KeyError")
         ELSE LET vs == SelectNumeric(r.data).cols
              IN  Show(r, Chart(2, "iris_pairplot",
                                <<Num(Len(vs) * PairHeight), Num(Len(vs) * PairHeight)>>,
                                PyNone, PyNone, "species", PyNone, PyNone,
                                Levels(r.data, "species", 1, <<>>), vs,
                                "iris_pairplot.png"))
    ELSE r

DistributionPlots(r, s) ==
    IF r.err # PyNone THEN r
    ELSE IF s.dataset \in {"Iris", "Titanic", "Tips"}
    THEN LET options      == SelectNumeric(r.data).cols
             selected_col == Selectbox(options, r.w.dist, 0)
             r1 == Emit([r EXCEPT !.w.dist = selected_col],
                        [kind |-> "selectbox", label |-> "Select column for distribution:",
                         options |-> options, value |-> selected_col])
         IN  IF Truthy(selected_col)
             THEN Show(r1, Chart(2, "distribution", FigSize(s), selected_col, PyNone,
                                 PyNone, PyNone, PyNone, <<>>, <<>>,
                                 selected_col \o "_distribution.png"))
             ELSE r1
    ELSE r

\* data["bill_per_person"] = data["total_bill"] / data["size"]
BillPerPerson(t) ==
    SetColumn(t, "bill_per_person", "num",
              [i \in DOMAIN t.rows |-> TrueDiv(t.rows[i]["total_bill"], t.rows[i]["size"])])

FeatureInteraction(r, s) ==
    IF r.err # PyNone THEN r
    ELSE IF s.dataset = "Tips"
    THEN IF ~HasCol(r.data, "total_bill") \/ ~HasCol(r.data, "size")
         THEN Raise(r, "KeyError")
         ELSE ScatterPlot([r EXCEPT !.data = BillPerPerson(r.data)], s, 2,
                          "tips_interaction", "bill_per_person", "tip", "sex",
                          IF s.animate THEN 80 ELSE 40, "tips_interaction.png")
    ELSE r

(***************************************************************************)
(* Tab 3, Interactive Explorer (lines 299-349).                            *)
(***************************************************************************)
\* Mutant of the hue argument: the selector ignored.
CustomHueIgnored(hue_col) == PyNone

\* hue=None if hue_col == "None" else hue_col
CustomHue(hue_col) == IF hue_col = "None" THEN PyNone ELSE hue_col

\* Mutant: the tab's content left out of the pass.
InteractiveExplorerLazy(r, s) == r

InteractiveExplorer(r, s) ==
    IF r.err # PyNone THEN r
    ELSE IF s.dataset \in {"Iris", "Titanic", "Tips"}
    THEN IF Len(r.data.cols) < 2 THEN Raise(r, "StreamlitAPIException")
         ELSE LET columns == r.data.cols
                  x_col   == Selectbox(columns, r.w.x, 0)
                  y_col   == Selectbox(columns, r.w.y, 1)
                  hue_col == Selectbox(<<"None">> \o columns, r.w.hue, 0)
                  r1 == Emit([r EXCEPT !.w.x = x_col],
                             [kind |-> "selectbox", label |-> "Select X-axis",
                              options |-> columns, value |-> x_col])
                  r2 == Emit([r1 EXCEPT !.w.y = y_col],
                             [kind |-> "selectbox", label |-> "Select Y-axis",
                              options |-> columns, value |-> y_col])
                  r3 == Emit([r2 EXCEPT !.w.hue = hue_col],
                             [kind |-> "selectbox", label |-> "Select Hue (color)",
                              options |-> <<"None">> \o columns, value |-> hue_col])
              IN  IF Truthy(x_col) /\ Truthy(y_col)
                  THEN ScatterPlot(r3, s, 3, "custom_scatter", x_col, y_col,
                                   CustomHue(hue_col), IF s.animate THEN 80 ELSE 40,
                                   "custom_scatter.png")
                  ELSE r3
    ELSE r

(***************************************************************************)
(* One pass: the script from line 109 to its end.                          *)
(***************************************************************************)
RunScript(s, live) ==
    LET r0 == Load(StartPass(s, live), s.dataset)
        r1 == Overview(r0)
        r2 == BasicVisualizations(r1, s)
        r3 == CorrelationHeatmap(r2, s)
        r4 == PairPlots(r3, s)
        r5 == DistributionPlots(r4, s)
        r6 == FeatureInteraction(r5, s)
    IN  InteractiveExplorer(r6, s)

NoCall == [op |-> PyNone, arg |-> PyNone]
NoRef == [set |-> FALSE, sel |-> InitSel, out |-> <<>>, figs |-> 0]

\* The session after a pass over selections s: the widgets hold what the
\* pass resolved them to. Sessions are followed for as long as pyplot's
\* registry holds no more than MaxFigs figures.
Rerun(s) ==
    \E r \in {RunScript(s, figs)} :
        /\ sel'  = [s EXCEPT !.dist = r.w.dist, !.x = r.w.x, !.y = r.w.y, !.hue = r.w.hue]
        /\ data' = r.data
        /\ out'  = r.log
        /\ r.figs <= MaxFigs
        /\ figs' = r.figs
        /\ UNCHANGED <<call, ref>>

(***************************************************************************)
(* The session: every interaction changes one widget and re-runs the       *)
(* script. The user picks among the options the page shows.                *)
(***************************************************************************)
Init ==
    /\ sel = InitSel
    /\ data = NoTable
    /\ out = <<>>
    /\ figs = 0
    /\ call = NoCall
    /\ ref = NoRef

Shown == out # <<>>

Charts(log) == {log[i] : i \in {k \in DOMAIN log : log[k].kind = "chart"}}

Errors(log) == {log[i] : i \in {k \in DOMAIN log : log[k].kind = "error"}}

\* The options of the selectbox labelled `label` on the page ({} if not shown).
OptionsShown(label) ==
    UNION {SeqSet(out[i].options) :
             i \in {k \in DOMAIN out : out[k].kind = "selectbox" /\ out[k].label = label}}

\* Mutant: the selector offers a dataset load_data has no branch for.
DatasetOptionsExtended == <<"Iris", "Titanic", "Tips", "Penguins">>

\* st.selectbox("Choose a dataset", ("Iris", "Titanic", "Tips"))
DatasetOptions == <<"Iris", "Titanic", "Tips">>

\* The browser requests the page: the first pass, with every widget at its default.
OpenPage ==
    /\ ~Shown
    /\ Rerun(sel)

\* st.download_button: a click sends the bytes and re-runs the script.
ClickDownload ==
    /\ Charts(out) # {}
    /\ Rerun(sel)

ChangeDataset ==
    /\ Shown
    /\ \E d \in SeqSet(DatasetOptions) :
         /\ d # sel.dataset
         /\ Rerun(DefaultSel(d, sel.theme, sel.width, sel.height, sel.animate))

ChangeTheme ==
    /\ Shown
    /\ \E th \in Themes : th # sel.theme /\ Rerun([sel EXCEPT !.theme = th])

ChangeWidth ==
    /\ Shown
    /\ \E w \in WidthValues : w # sel.width /\ Rerun([sel EXCEPT !.width = w])

ChangeHeight ==
    /\ Shown
    /\ \E h \in HeightValues : h # sel.height /\ Rerun([sel EXCEPT !.height = h])

ToggleAnimate ==
    /\ Shown
    /\ Rerun([sel EXCEPT !.animate = ~sel.animate])

SelectDistribution ==
    /\ \E c \in OptionsShown("Select column for distribution:") :
         c # sel.dist /\ Rerun([sel EXCEPT !.dist = c])

SelectX ==
    /\ \E c \in OptionsShown("Select X-axis") : c # sel.x /\ Rerun([sel EXCEPT !.x = c])

SelectY ==
    /\ \E c \in OptionsShown("Select Y-axis") : c # sel.y /\ Rerun([sel EXCEPT !.y = c])

SelectHue ==
    /\ \E c \in OptionsShown("Select Hue (color)") :
         c # sel.hue /\ Rerun([sel EXCEPT !.hue = c])

Next ==
    \/ OpenPage
    \/ ClickDownload
    \/ ChangeDataset
    \/ ChangeTheme
    \/ ChangeWidth
    \/ ChangeHeight
    \/ ToggleAnimate
    \/ SelectDistribution
    \/ SelectX
    \/ SelectY
    \/ SelectHue

Spec == Init /\ [][Next]_vars

(***************************************************************************)
(* The session with one pass remembered: the selections and the output of  *)
(* a pass shown with every widget but the dataset selector at its default  *)
(* may be recorded, once, for comparison with every later pass.            *)
(***************************************************************************)
AtDefaults ==
    \E r \in {RunScript(DefaultSel(sel.dataset, "Default", PlotWidthDefault,
                                   PlotHeightDefault, TRUE), 0)} :
        /\ sel.theme = "Default" /\ sel.animate
        /\ sel.width = PlotWidthDefault /\ sel.height = PlotHeightDefault
        /\ sel.dist = r.w.dist /\ sel.x = r.w.x /\ sel.y = r.w.y /\ sel.hue = r.w.hue

Remember ==
    /\ Shown
    /\ ~ref.set
    /\ AtDefaults
    /\ ref' = [set |-> TRUE, sel |-> sel, out |-> out, figs |-> figs]
    /\ UNCHANGED <<sel, data, out, figs, call>>

NextRef == Next \/ Remember

SpecRef == Init /\ [][NextRef]_vars

(***************************************************************************)
(* The sections taken alone: load_data, the correlation heatmap and the    *)
(* Tips feature interaction applied, in any order, to tables and           *)
(* identifiers drawn from bounded sets. `out` holds what the last call     *)
(* produced, `figs` the figures it created, `call` its name and argument.  *)
(***************************************************************************)
UnitSel == DefaultSel("Tips", "Default", PlotWidthDefault, PlotHeightDefault, TRUE)

\* Identifiers load_data may be handed: the three it knows and three it does not.
AnyIdentifiers == Identifiers \cup {"Penguins", "tips", ""}

\* Non-empty tables of up to MaxRows rows over any of the columns
\* total_bill, tip, sex, size (in that order), party sizes from 1 up.
UnitRows ==
    {[total_bill |-> Num(10 * b), tip |-> Num(1), sex |-> sx, size |-> Num(k)] :
        b \in 0..MaxBill, sx \in {"Male"}, k \in 1..MaxSize}

Project(t, keep) ==
    LET cs == SelectSeq(t.cols, LAMBDA c : c \in keep)
    IN  [name  |-> t.name,
         cols  |-> cs,
         dtype |-> [c \in SeqSet(cs) |-> t.dtype[c]],
         rows  |-> [i \in DOMAIN t.rows |-> [c \in SeqSet(cs) |-> t.rows[i][c]]]]

UnitTables ==
    {Project([name  |-> "tips",
              cols  |-> <<"total_bill", "tip", "sex", "size">>,
              dtype |-> [total_bill |-> "num", tip |-> "num", sex |-> "cat", size |-> "num"],
              rows  |-> rows], keep) :
        rows \in UNION {[1..n -> UnitRows] : n \in 1..MaxRows},
        keep \in SUBSET {"total_bill", "tip", "sex", "size"}}

InitUnit ==
    /\ sel = UnitSel
    /\ data \in UnitTables
    /\ out = <<>>
    /\ figs = 0
    /\ call = NoCall
    /\ ref = NoRef

UnitStart == [StartPass(sel, 0) EXCEPT !.data = data]

UnitLoad ==
    \E id \in AnyIdentifiers :
        \E r \in {Load(StartPass(sel, 0), id)} :
            /\ data' = r.data
            /\ out' = r.log
            /\ figs' = r.figs
            /\ call' = [op |-> "load_data", arg |-> id]
            /\ UNCHANGED <<sel, ref>>

UnitHeatmap ==
    /\ data # NoTable
    /\ \E r \in {CorrelationHeatmap(UnitStart, sel)} :
            /\ data' = r.data
            /\ out' = r.log
            /\ figs' = r.figs
            /\ call' = [op |-> "CorrelationHeatmap", arg |-> data]
            /\ UNCHANGED <<sel, ref>>

\* The section runs only with the Tips dataset selected: on tables that
\* have the columns of Tips it reads.
UnitFeature ==
    /\ {"total_bill", "tip", "sex", "size"} \subseteq ColSet(data)
    /\ \E r \in {FeatureInteraction(UnitStart, sel)} :
            /\ data' = r.data
            /\ out' = r.log
            /\ figs' = r.figs
            /\ call' = [op |-> "FeatureInteraction", arg |-> data]
            /\ UNCHANGED <<sel, ref>>

NextUnit == UnitLoad \/ UnitHeatmap \/ UnitFeature

SpecUnit == InitUnit /\ [][NextUnit]_vars

(***************************************************************************)
(* Properties.                                                             *)
(***************************************************************************)
BPP == "bill_per_person"

\* The values a column holds, missing ones aside.
ColumnValues(t, c) ==
    {t.rows[i][c] : i \in {k \in DOMAIN t.rows : ~IsMissing(t, c, t.rows[k][c])}}

ChartTabs(log) == {e.tab : e \in Charts(log)}

\* C1: after the Tips Feature Interaction section has been evaluated on a
\* table, the table has a column bill_per_person whose value in every row is
\* exactly total_bill / size, the section has not failed, every other column
\* is as it was, and when the table already had the column (a second
\* evaluation) the table is unchanged altogether.
C1_BillPerPersonDerivation ==
    call.op = "FeatureInteraction" =>
        /\ Errors(out) = {}
        /\ data.cols = IF HasCol(call.arg, BPP) THEN call.arg.cols
                       ELSE Append(call.arg.cols, BPP)
        /\ \A i \in DOMAIN data.rows :
             LET q  == data.rows[i][BPP]
                 tb == data.rows[i]["total_bill"]
                 sz == data.rows[i]["size"]
             IN  /\ q[2] > 0
                 /\ GCD(Abs(q[1]), q[2]) = 1
                 /\ q[1] * sz[1] * tb[2] = tb[1] * sz[2] * q[2]
                 /\ \A c \in ColSet(call.arg) \ {BPP} : data.rows[i][c] = call.arg.rows[i][c]
        /\ (HasCol(call.arg, BPP) => data = call.arg)

\* C1 witness: a second evaluation on a table with a row total_bill = 20,
\* size = 4, whose bill_per_person is 5.
C1_Witness ==
    /\ call.op = "FeatureInteraction"
    /\ HasCol(call.arg, BPP)
    /\ \E i \in DOMAIN data.rows :
         /\ data.rows[i]["total_bill"] = <<20, 1>>
         /\ data.rows[i]["size"] = <<4, 1>>
         /\ data.rows[i][BPP] = <<5, 1>>

C3_LoadDataContract ==
    call.op = "load_data" =>
        IF call.arg \in Identifiers
        THEN /\ Len(out) = 1 /\ out[1].kind = "load"
             /\ data = FreshTable(call.arg)
        ELSE out = <<[kind |-> "error", type |-> "ConfigurationError"]>>

\* C4 (as claimed): every chart of a pass has the dimensions width/100 by
\* height/100 of the current DisplayOptions.
C4_FigureSizeLinear ==
    \A e \in Charts(out) :
        /\ e.figsize[1][1] * 100 = sel.width * e.figsize[1][2]
        /\ e.figsize[2][1] * 100 = sel.height * e.figsize[2][2]

\* C5: the generic scatter of a pass is drawn over the selected x and y;
\* with the hue selector at "None" it has no hue column and one series, and
\* with the hue selector at a column it has that column as hue and exactly
\* one series per distinct value of the column.
C5_GenericScatterSeries ==
    \A e \in Charts(out) :
        e.id = "custom_scatter" =>
            /\ e.x = sel.x /\ e.y = sel.y
            /\ sel.hue = "None" => (e.hue = PyNone /\ e.nseries = 1)
            /\ sel.hue # "None" =>
                 /\ e.hue = sel.hue
                 /\ HasCol(data, sel.hue)
                 /\ SeqSet(e.levels) = ColumnValues(data, sel.hue)
                 /\ e.nseries = Cardinality(ColumnValues(data, sel.hue))

\* C5 witness: a generic scatter coloured by a selected column with several values.
C5_Witness ==
    /\ sel.hue \notin {"None", PyNone}
    /\ \E e \in Charts(out) : e.id = "custom_scatter" /\ e.nseries >= 2

\* The charts of each dataset, by tab.
Catalog(d) ==
    IF d = "Iris"
    THEN {<<1, "iris_scatter">>, <<2, "correlation_heatmap">>, <<2, "iris_pairplot">>,
          <<2, "distribution">>, <<3, "custom_scatter">>}
    ELSE IF d = "Titanic"
    THEN {<<1, "titanic_survival">>, <<2, "correlation_heatmap">>, <<2, "distribution">>,
          <<3, "custom_scatter">>}
    ELSE {<<1, "tips_scatter">>, <<2, "correlation_heatmap">>, <<2, "distribution">>,
          <<2, "tips_interaction">>, <<3, "custom_scatter">>}

PassInOrder ==
    /\ Len(out) >= 3
    /\ out[1].kind = "load" /\ out[1].dataset = sel.dataset
    /\ out[2].kind = "dataframe"
    /\ out[3].kind = "describe"
    /\ \A i \in 4..Len(out) : out[i].kind \in {"chart", "selectbox", "write"}
    /\ \A i, j \in {k \in DOMAIN out : out[k].kind = "chart"} :
         i < j => out[i].tab <= out[j].tab

\* C6 (amended): the page always shows one full pass over the current
\* selections: the dataset reloaded first, then the table and its summary
\* statistics, then the charts of all three tabs in tab order, whichever tab
\* is open.
C6_FullPassAllTabs ==
    Shown =>
        /\ PassInOrder
        /\ {<<e.tab, e.id>> : e \in Charts(out)} = Catalog(sel.dataset)
        /\ \A e \in Charts(out) : e.id = "custom_scatter" => e.x = sel.x /\ e.y = sel.y

\* C6 witness: a pass over Tips with charts in each of the three tabs.
C6_Witness ==
    /\ Shown
    /\ sel.dataset = "Tips"
    /\ ChartTabs(out) = {1, 2, 3}

\* C6 (as claimed): the charts a pass regenerates are those of one tab, the
\* active one.
C6_OnlyActiveTab ==
    Shown => (PassInOrder /\ \E t \in {1, 2, 3} : ChartTabs(out) = {t})

\* C7: every pass runs to completion without raising: the page shows no
\* error, its last element is the generic scatter at the end of the third
\* tab, and every selector holds one of its options.
C7_PassCompletes ==
    Shown =>
        /\ Errors(out) = {}
        /\ out[Len(out)].kind = "chart" /\ out[Len(out)].id = "custom_scatter"
        /\ sel.dataset \in Identifiers /\ sel.theme \in Themes
        /\ sel.width \in PlotWidthMin..PlotWidthMax
        /\ sel.height \in PlotHeightMin..PlotHeightMax
        /\ sel.dist \in OptionsShown("Select column for distribution:")
        /\ sel.x \in OptionsShown("Select X-axis")
        /\ sel.y \in OptionsShown("Select Y-axis")
        /\ sel.hue \in OptionsShown("Select Hue (color)")

\* C7 witness: a completed pass over Tips at the largest width, not animated,
\* coloured by the derived column.
C7_Witness ==
    /\ Shown
    /\ sel.dataset = "Tips" /\ sel.width = PlotWidthMax
    /\ sel.hue = BPP
    /\ out[Len(out)].kind = "chart"

\* C8: the table a pass loads never has the column bill_per_person, and a
\* pass over the selections of the remembered pass shows exactly what the
\* remembered pass showed, whatever passes came between.
C8_OutputFunctionOfSelections ==
    /\ Shown => BPP \notin SeqSet(out[1].cols)
    /\ (ref.set /\ sel = ref.sel) => out = ref.out

\* C8 witness: Tips remembered, then a Titanic pass (four figures) and a
\* Tips pass (five) with the remembered selections.
C8_Witness ==
    /\ ref.set
    /\ sel = ref.sel
    /\ sel.dataset = "Tips"
    /\ figs = ref.figs + 9

\* C9 (as claimed): no figure of a finished pass is still held, so every
\* pass starts with as many live figures as the first one did: none.
C9_FiguresDisposed == figs = 0

\* C10: in a pass over Tips, bill_per_person is absent from the loaded and
\* displayed table, the summary statistics and the distribution options, the
\* derivation comes after the distribution selector and before the explorer's
\* selectors, and the column is among the x, y and hue options; in a pass
\* over Iris or Titanic no table, statistic or selector has the column.
C10_DerivedColumnPlacement ==
    Shown =>
        LET at(label) == {i \in DOMAIN out : out[i].kind = "selectbox" /\ out[i].label = label}
            derived   == {i \in DOMAIN out : out[i].kind = "chart" /\ out[i].x = BPP
                                             /\ out[i].id = "tips_interaction"}
        IN  /\ BPP \notin SeqSet(out[1].cols)
            /\ BPP \notin SeqSet(out[2].cols)
            /\ BPP \notin SeqSet(out[3].cols)
            /\ BPP \notin OptionsShown("Select column for distribution:")
            /\ IF sel.dataset = "Tips"
               THEN /\ HasCol(data, BPP)
                    /\ Cardinality(derived) = 1
                    /\ \A d \in derived :
                         /\ \A i \in at("Select column for distribution:") : i < d
                         /\ \A i \in at("Select X-axis") \cup at("Select Y-axis")
                                       \cup at("Select Hue (color)") : d < i
                    /\ BPP \in OptionsShown("Select X-axis")
                    /\ BPP \in OptionsShown("Select Y-axis")
                    /\ BPP \in OptionsShown("Select Hue (color)")
               ELSE /\ ~HasCol(data, BPP)
                    /\ derived = {}
                    /\ BPP \notin OptionsShown("Select X-axis")
                    /\ BPP \notin OptionsShown("Select Y-axis")
                    /\ BPP \notin OptionsShown("Select Hue (color)")

\* C10 witness: a second pass over Tips, with the derived column on the x axis.
C10_Witness ==
    /\ Shown
    /\ sel.dataset = "Tips"
    /\ sel.x = BPP
    /\ figs >= 15

====
